---- MODULE Spec2Model ----
(***************************************************************************)
(* Model of the drawing server (src/server/server.js, the live revision    *)
(* at lines 215-389): the in-memory room table `boards`, the `dirtyRooms`  *)
(* set, the Firestore documents, the socket.io rooms, and the handlers     *)
(* join-room, draw, disconnect, the 30 s save timer and gracefulShutdown,  *)
(* and the events the clients emit that the server has no listener for.    *)
(*                                                                         *)
(* Node runs every handler to its next `await` without interruption, so    *)
(* one action is one such run.  A Firestore call is asynchronous: it is    *)
(* issued by one action and settles in a later one, which is also where    *)
(* the store serves it; calls in flight together settle in any order.      *)
(***************************************************************************)
EXTENDS Integers, Sequences, FiniteSets, TLC

\* ------------------------------------------------------------------ bounds
Rooms == {"demo", "other"}
Conns == {"A", "B"}
MaxEvents == 3      \* join-room, draw, disconnect and save events in a run
MaxSaveEvents == 4  \* draw and save events in a run of the save protocol
MaxSessionEvents == 3  \* events of any kind in a run of the room sessions

\* process.on(...) registrations, server.js:338-341
Triggers == {"SIGINT", "SIGTERM", "uncaughtException", "unhandledRejection"}

\* Two segments a client can send (a pen segment and an eraser segment).
Seg1 == [x0 |-> 0, y0 |-> 0, x1 |-> 1, y1 |-> 1, color |-> "#000000", size |-> 3]
Seg2 == [x0 |-> 1, y0 |-> 1, x1 |-> 0, y1 |-> 1, color |-> "__eraser__", size |-> 5]
Segments == {Seg1, Seg2}

\* The payload of an inbound draw event: the segment plus its roomId.
DrawData == {[roomId |-> r] @@ s : r \in Rooms, s \in Segments}

\* Documents that can already be in the rooms collection when the process
\* starts: one with a stroke, one written without a strokes field.
InitialDocs == {[strokes |-> <<Seg1>>, updatedAt |-> 0], [updatedAt |-> 0]}

VARIABLES
    boards,      \* roomId -> strokes; DOMAIN boards = the resident rooms
    dirtyRooms,  \* Set of roomIds modified since the last save
    store,       \* Firestore collection "rooms": roomId -> document
    members,     \* socket.io rooms: roomId -> set of sockets joined to it
    status,      \* socket -> "new" | "open" | "closed"
    outbox,      \* socket -> sequence of events emitted to it
    loads,       \* socket -> its join-room handler suspended in the load
    flushes,     \* the saveAllRoomsToFirestore calls that issued writes
    exited,      \* process.exit(0) has run
    drawn,       \* history: roomId -> the draw events processed, in order,
                 \*          each with its socket and its event data
    joined,      \* history: socket -> the rooms of its join-room events
    received     \* history: the latest of the other inbound events, with
                 \*          its socket and roomId, the number of events
                 \*          taken before it (at) and how many such events
                 \*          there have been (n)

vars == <<boards, dirtyRooms, store, members, status, outbox, loads,
          flushes, exited, drawn, joined, received>>

\* ----------------------------------------------------------------- helpers
\* Variant: boards[roomId].push(data), the event data as received
Stroke_WholeData(data) == data

\* { x0, y0, x1, y1, color, size } picked out of the event data
Stroke(data) ==
    [x0 |-> data.x0, y0 |-> data.y0, x1 |-> data.x1, y1 |-> data.y1,
     color |-> data.color, size |-> data.size]

\* !boards[roomId] is false for a resident room, an empty array included
Resident_NonEmpty(r) == r \in DOMAIN boards /\ boards[r] # <<>>
Resident(r) == r \in DOMAIN boards

\* docSnap.data().strokes || []
DocStrokes(doc) == IF "strokes" \in DOMAIN doc THEN doc.strokes ELSE <<>>

\* boards[roomId] || []
BoardOrEmpty(r) == IF Resident(r) THEN boards[r] ELSE <<>>

\* Date.now(), as a logical clock that advances with every flush
Now == Len(flushes) + 1

InitBoardEvent(strokes) == [type |-> "init-board", strokes |-> strokes]
DrawEvent(s) == [type |-> "draw", stroke |-> s]

\* socket.emit: a packet for a socket that is no longer open is discarded
Emit(c, ev) ==
    IF status[c] = "open" THEN [outbox EXCEPT ![c] = Append(@, ev)] ELSE outbox

\* Variant: socket.broadcast, every connected socket except the sender
DrawRecipients_Everyone(c, r) == {d \in Conns : status[d] = "open"} \ {c}

\* Variant: io.to(roomId), which does not leave the sender out
DrawRecipients_All(c, r) == members[r]

\* socket.to(roomId): every socket in the room except the sender
DrawRecipients(c, r) == members[r] \ {c}

TotalDraws == Len(drawn["demo"]) + Len(drawn["other"])
TotalJoins == Len(joined["A"]) + Len(joined["B"])
Closed == {c \in Conns : status[c] = "closed"}

\* The events taken from outside so far: join-room, draw and disconnect
\* events, the saves that found a dirty room, and the other inbound events
Events ==
    TotalDraws + TotalJoins + Len(flushes) + Cardinality(Closed) + received.n

\* What a load of r would hydrate from the store as it is now
StoredStrokes(r) == IF r \in DOMAIN store THEN DocStrokes(store[r]) ELSE <<>>

\* f without the key k
Without(f, k) == [x \in DOMAIN f \ {k} |-> f[x]]

\* ------------------------------------------------------------------- Init
Init ==
    /\ boards = <<>>
    /\ dirtyRooms = {}
    /\ \E had \in SUBSET {"demo"} :
         store \in [had -> InitialDocs]
    /\ members = [r \in Rooms |-> {}]
    /\ status = [c \in Conns |-> "new"]
    /\ outbox = [c \in Conns |-> <<>>]
    /\ loads = <<>>
    /\ flushes = <<>>
    /\ exited = FALSE
    /\ drawn = [r \in Rooms |-> <<>>]
    /\ joined = [c \in Conns |-> <<>>]
    /\ received = [type |-> "none", conn |-> "none", roomId |-> "none",
                   at |-> 0, n |-> 0]

\* ---------------------------------------------------------------- actions
\* io.on("connection")
Connect(c) ==
    /\ ~exited
    /\ status[c] = "new"
    /\ status' = [status EXCEPT ![c] = "open"]
    /\ UNCHANGED <<boards, dirtyRooms, store, members, outbox, loads,
                   flushes, exited, drawn, joined, received>>

\* Variant: a disconnect listener that announces the departure to every
\* other connected socket, whether or not the socket had joined a room
Disconnect_Announces(c) ==
    /\ ~exited
    /\ status[c] = "open"
    /\ status' = [status EXCEPT ![c] = "closed"]
    /\ members' = [r \in Rooms |-> members[r] \ {c}]
    /\ outbox' = [d \in Conns |->
                     IF d # c /\ status[d] = "open"
                     THEN Append(outbox[d], [type |-> "cursor-remove",
                                             connectionId |-> c])
                     ELSE outbox[d]]
    /\ UNCHANGED <<boards, dirtyRooms, store, loads, flushes,
                   exited, drawn, joined, received>>

\* socket.on("disconnect"): the handler only logs; socket.io has already
\* removed the socket from every room it had joined
Disconnect(c) ==
    /\ ~exited
    /\ status[c] = "open"
    /\ status' = [status EXCEPT ![c] = "closed"]
    /\ members' = [r \in Rooms |-> members[r] \ {c}]
    /\ UNCHANGED <<boards, dirtyRooms, store, outbox, loads, flushes,
                   exited, drawn, joined, received>>

\* Variant: a join-room listener that marks the room dirty before the load
\* it awaits, not at the end of the load
JoinRoom_MarksDirtyEarly(c, r) ==
    /\ ~exited
    /\ status[c] = "open"
    /\ c \notin DOMAIN loads
    /\ joined' = [joined EXCEPT ![c] = Append(@, r)]
    /\ members' = [members EXCEPT ![r] = @ \cup {c}]
    /\ IF Resident(r)
       THEN /\ outbox' = Emit(c, InitBoardEvent(boards[r]))
            /\ UNCHANGED <<loads, dirtyRooms>>
       ELSE /\ loads' = (c :> [room |-> r, atJoin |-> StoredStrokes(r),
                                afterFirst |-> FALSE]) @@ loads
            /\ dirtyRooms' = dirtyRooms \cup {r}
            /\ UNCHANGED outbox
    /\ UNCHANGED <<boards, store, status, flushes, exited, drawn, received>>

\* socket.on("join-room") up to its await, or to its end when the room is
\* resident.  `atJoin` is history: what the store held for r at this instant;
\* `afterFirst` is history: another load of r has resumed since.
\* A socket sends its next join-room once the previous one has been answered
JoinRoom(c, r) ==
    /\ ~exited
    /\ status[c] = "open"
    /\ c \notin DOMAIN loads
    /\ joined' = [joined EXCEPT ![c] = Append(@, r)]
    /\ members' = [members EXCEPT ![r] = @ \cup {c}]
    /\ IF Resident(r)
       THEN /\ outbox' = Emit(c, InitBoardEvent(boards[r]))
            /\ UNCHANGED loads
       ELSE /\ loads' = (c :> [room |-> r, atJoin |-> StoredStrokes(r),
                                afterFirst |-> FALSE]) @@ loads
            /\ UNCHANGED outbox
    /\ UNCHANGED <<boards, dirtyRooms, store, status, flushes, exited, drawn,
                   received>>

\* What `await docRef.get()` can yield for room r: the snapshot, or a throw
GetResults(r) ==
    {IF r \in DOMAIN store THEN [kind |-> "doc", doc |-> store[r]]
                           ELSE [kind |-> "absent"],
     [kind |-> "error"]}

\* Variant: a catch block that does not reset boards[roomId]
LoadedStrokes_KeepOnError(r, res) ==
    IF res.kind = "doc" THEN DocStrokes(res.doc)
    ELSE IF res.kind = "error" THEN BoardOrEmpty(r) ELSE <<>>

\* The strokes loadRoomFromFirestore assigns to boards[roomId]
LoadedStrokes(r, res) ==
    IF res.kind = "doc" THEN DocStrokes(res.doc) ELSE <<>>

\* Variant: dirtyRooms.add(roomId) inside the `if (docSnap.exists)` branch
LoadMarksDirty_OnlyExisting(res) == res.kind = "doc"

\* dirtyRooms.add(roomId) is the last statement of the try block
LoadMarksDirty(res) == res.kind # "error"

\* What loadRoomFromFirestore writes to the store
StoreAfterLoad(r, res) == store

\* loadRoomFromFirestore from its await on, then the rest of join-room
LoadResume(c, res) ==
    /\ ~exited
    /\ c \in DOMAIN loads
    /\ res \in GetResults(loads[c].room)
    /\ LET r == loads[c].room
           s == LoadedStrokes(r, res)
       IN /\ boards' = (r :> s) @@ boards
          /\ dirtyRooms' = IF LoadMarksDirty(res) THEN dirtyRooms \cup {r}
                                                  ELSE dirtyRooms
          /\ store' = StoreAfterLoad(r, res)
          /\ outbox' = Emit(c, InitBoardEvent(s))
          /\ loads' = [d \in DOMAIN Without(loads, c) |->
                          IF loads[d].room = r
                          THEN [loads[d] EXCEPT !.afterFirst = TRUE]
                          ELSE loads[d]]
    /\ UNCHANGED <<members, status, flushes, exited, drawn, joined, received>>

\* Variant: a draw listener that is held back while a load of its room is
\* in flight
Draw_WaitsForLoad(c, data) ==
    LET r == data.roomId
        s == Stroke(data)
    IN /\ ~exited
       /\ status[c] = "open"
       /\ \A d \in DOMAIN loads : loads[d].room # r
       /\ boards' = (r :> Append(BoardOrEmpty(r), s)) @@ boards
       /\ dirtyRooms' = dirtyRooms \cup {r}
       /\ outbox' = [d \in Conns |->
                        IF d \in DrawRecipients(c, r)
                        THEN Append(outbox[d], DrawEvent(s))
                        ELSE outbox[d]]
       /\ drawn' = [drawn EXCEPT ![r] = Append(@, [conn |-> c, data |-> data])]
       /\ UNCHANGED <<store, members, status, loads, flushes, exited, joined,
                      received>>

\* Variant: a draw listener that answers a draw for a room that is not
\* resident with an error event instead of creating the room
Draw_RejectUnknown(c, data) ==
    LET r == data.roomId
        s == Stroke(data)
    IN /\ ~exited
       /\ status[c] = "open"
       /\ IF Resident(r)
          THEN /\ boards' = [boards EXCEPT ![r] = Append(@, s)]
               /\ dirtyRooms' = dirtyRooms \cup {r}
               /\ outbox' = [d \in Conns |->
                                IF d \in DrawRecipients(c, r)
                                THEN Append(outbox[d], DrawEvent(s))
                                ELSE outbox[d]]
          ELSE /\ outbox' = Emit(c, [type |-> "error", message |-> "room not found"])
               /\ UNCHANGED <<boards, dirtyRooms>>
       /\ drawn' = [drawn EXCEPT ![r] = Append(@, [conn |-> c, data |-> data])]
       /\ UNCHANGED <<store, members, status, loads, flushes, exited, joined,
                      received>>

\* socket.on("draw")
Draw(c, data) ==
    LET r == data.roomId
        s == Stroke(data)
    IN /\ ~exited
       /\ status[c] = "open"
       /\ boards' = (r :> Append(BoardOrEmpty(r), s)) @@ boards
       /\ dirtyRooms' = dirtyRooms \cup {r}
       /\ outbox' = [d \in Conns |->
                        IF d \in DrawRecipients(c, r)
                        THEN Append(outbox[d], DrawEvent(s))
                        ELSE outbox[d]]
       /\ drawn' = [drawn EXCEPT ![r] = Append(@, [conn |-> c, data |-> data])]
       /\ UNCHANGED <<store, members, status, loads, flushes, exited, joined,
                      received>>

\* The events the clients emit (part_000:172, part_001:203-211, 293, 353;
\* cursor-leave and commit-stroke are listed by the protocol) for which
\* io.on("connection") registers no listener
UnhandledTypes ==
    {"clear-room", "cursor-move", "cursor-leave", "send-message", "commit-stroke"}

\* Variant: a listener for the event that relays it to the other sockets in
\* the room, as the draw listener does
Unhandled_Relays(c, type, r) ==
    /\ ~exited
    /\ status[c] = "open"
    /\ received' = [type |-> type, conn |-> c, roomId |-> r, at |-> Events,
                    n |-> received.n + 1]
    /\ outbox' = [d \in Conns |->
                     IF d \in members[r] \ {c}
                     THEN Append(outbox[d], [type |-> type])
                     ELSE outbox[d]]
    /\ UNCHANGED <<boards, dirtyRooms, store, members, status, loads,
                   flushes, exited, drawn, joined>>

\* Variant: a listener for the event that marks the room dirty
Unhandled_MarksDirty(c, type, r) ==
    /\ ~exited
    /\ status[c] = "open"
    /\ received' = [type |-> type, conn |-> c, roomId |-> r, at |-> Events,
                    n |-> received.n + 1]
    /\ dirtyRooms' = dirtyRooms \cup {r}
    /\ UNCHANGED <<boards, store, members, status, outbox, loads,
                   flushes, exited, drawn, joined>>

\* An inbound event without a listener: socket.io drops the packet
Unhandled(c, type, r) ==
    /\ ~exited
    /\ status[c] = "open"
    /\ received' = [type |-> type, conn |-> c, roomId |-> r, at |-> Events,
                    n |-> received.n + 1]
    /\ UNCHANGED <<boards, dirtyRooms, store, members, status, outbox, loads,
                   flushes, exited, drawn, joined>>

\* The join-room payload of the newer client (part_001:137)
Usernames == {"Alice"}
JoinPayloads == {[roomId |-> r, username |-> n] : r \in Rooms, n \in Usernames}

\* The property key an object is coerced to in boards[roomId]
ObjectKey == "[object Object]"

\* socket.on("join-room") handed the object payload as its roomId:
\* socket.join puts the socket in a room keyed by the object itself, which
\* no emit addresses; boards[roomId] is boards["[object Object]"];
\* db.collection("rooms").doc(roomId) throws inside the try block of
\* loadRoomFromFirestore before any read is issued, so the catch block
\* runs and the handler resumes without another event in between
JoinRoomObject(c, p) ==
    /\ ~exited
    /\ status[c] = "open"
    /\ c \notin DOMAIN loads
    /\ received' = [type |-> "join-room", conn |-> c, roomId |-> p.roomId,
                    at |-> Events, n |-> received.n + 1]
    /\ boards' = IF Resident(ObjectKey) THEN boards
                                        ELSE (ObjectKey :> <<>>) @@ boards
    /\ outbox' = Emit(c, InitBoardEvent(boards'[ObjectKey]))
    /\ UNCHANGED <<dirtyRooms, store, members, status, loads, flushes,
                   exited, drawn, joined>>

\* Variant: a save that writes every resident room, dirty or not
FlushWrites_AllResident ==
    [r \in DOMAIN boards |-> [updatedAt |-> Now, strokes |-> boards[r]]]

\* Variant: a save that leaves the strokes field out of the document of a
\* room that has no strokes
FlushWrites_NoStrokesWhenEmpty ==
    [r \in dirtyRooms |->
        IF BoardOrEmpty(r) = <<>>
        THEN [updatedAt |-> Now]
        ELSE [updatedAt |-> Now, strokes |-> BoardOrEmpty(r)]]

\* The documents saveAllRoomsToFirestore sends: one set() per dirty room
FlushWrites ==
    [r \in dirtyRooms |-> [updatedAt |-> Now, strokes |-> BoardOrEmpty(r)]]

\* saveAllRoomsToFirestore up to its await, or to its return when nothing
\* is dirty; then what its caller does
SaveAllRooms(by) ==
    /\ ~exited
    /\ IF dirtyRooms = {}
       THEN /\ exited' = (by = "gracefulShutdown")
            /\ UNCHANGED flushes
       ELSE /\ flushes' = Append(flushes,
                   [by |-> by, status |-> "running", sent |-> FlushWrites,
                    pending |-> dirtyRooms])
            /\ UNCHANGED exited
    /\ UNCHANGED <<boards, dirtyRooms, store, members, status, outbox,
                   loads, drawn, joined, received>>

\* setInterval(saveAllRoomsToFirestore, 30_000)
AutoSave == SaveAllRooms("setInterval")

\* gracefulShutdown, registered for the four triggers; its argument (the
\* signal name or the error) is only logged
GracefulShutdown(t) == SaveAllRooms("gracefulShutdown")

\* dirtyRooms after the code that follows `await Promise.all(savePromises)`
DirtyAfterSave(f) == {}

\* Variant: a catch block that takes the rooms of the failed save out of
\* the set
DirtyAfterFailedSave_DropsSent(f) == dirtyRooms \ DOMAIN flushes[f].sent

\* Variant: dirtyRooms.clear() in a finally block
DirtyAfterFailedSave_Clears(f) == {}

\* dirtyRooms after the catch block of saveAllRoomsToFirestore
DirtyAfterFailedSave(f) == dirtyRooms

\* Promise.all(savePromises) settles with this write: it fulfils with the
\* last fulfilment and rejects with the first rejection
AllSettles(f, r, ok) ==
    /\ flushes[f].status = "running"
    /\ ok => flushes[f].pending = {r}

\* One set() settles.  If Promise.all settles with it, the rest of
\* saveAllRoomsToFirestore runs, and then the rest of gracefulShutdown
WriteSettle(f, r, ok) ==
    /\ ~exited
    /\ f \in DOMAIN flushes
    /\ r \in flushes[f].pending
    /\ store' = IF ok THEN (r :> flushes[f].sent[r]) @@ store ELSE store
    /\ IF AllSettles(f, r, ok)
       THEN /\ flushes' = [flushes EXCEPT
                   ![f].status = IF ok THEN "ok" ELSE "failed",
                   ![f].pending = @ \ {r}]
            /\ dirtyRooms' = IF ok THEN DirtyAfterSave(f)
                                   ELSE DirtyAfterFailedSave(f)
            /\ exited' = (flushes[f].by = "gracefulShutdown")
       ELSE /\ flushes' = [flushes EXCEPT ![f].pending = @ \ {r}]
            /\ UNCHANGED <<dirtyRooms, exited>>
    /\ UNCHANGED <<boards, members, status, outbox, loads, drawn, joined,
                   received>>

\* A set() that was in flight when the process exited may still reach the
\* store
WriteAfterExit(f, r) ==
    /\ exited
    /\ f \in DOMAIN flushes
    /\ r \in flushes[f].pending
    /\ store' = (r :> flushes[f].sent[r]) @@ store
    /\ flushes' = [flushes EXCEPT ![f].pending = @ \ {r}]
    /\ UNCHANGED <<boards, dirtyRooms, members, status, outbox, loads,
                   exited, drawn, joined, received>>

\* The server with at most MaxEvents events from outside
Next ==
    \/ \E c \in Conns : Connect(c)
    \/ Events < MaxEvents /\ \E c \in Conns : Disconnect(c)
    \/ Events < MaxEvents /\ \E c \in Conns, r \in Rooms : JoinRoom(c, r)
    \/ \E c \in Conns, res \in UNION {GetResults(r) : r \in Rooms} :
          LoadResume(c, res)
    \/ Events < MaxEvents /\ \E c \in Conns, data \in DrawData : Draw(c, data)
    \/ Events < MaxEvents /\ AutoSave
    \/ Events < MaxEvents /\ \E t \in Triggers : GracefulShutdown(t)
    \/ \E f \in DOMAIN flushes, r \in Rooms, ok \in BOOLEAN : WriteSettle(f, r, ok)
    \/ \E f \in DOMAIN flushes, r \in Rooms : WriteAfterExit(f, r)

Spec == Init /\ [][Next]_vars

\* The save protocol alone, with at most MaxSaveEvents events: sockets that
\* only draw, the save timer and the shutdown triggers
SaveNext ==
    \/ \E c \in Conns : Connect(c)
    \/ Events < MaxSaveEvents /\ \E c \in Conns, data \in DrawData : Draw(c, data)
    \/ Events < MaxSaveEvents /\ AutoSave
    \/ Events < MaxSaveEvents /\ \E t \in Triggers : GracefulShutdown(t)
    \/ \E f \in DOMAIN flushes, r \in Rooms, ok \in BOOLEAN : WriteSettle(f, r, ok)
    \/ \E f \in DOMAIN flushes, r \in Rooms : WriteAfterExit(f, r)

SpecSave == Init /\ [][SaveNext]_vars

\* The room sessions, with at most MaxSessionEvents events: sockets that
\* emit every event of the clients, and the save timer
SessionNext ==
    \/ \E c \in Conns : Connect(c)
    \/ Events < MaxSessionEvents /\ \E c \in Conns : Disconnect(c)
    \/ Events < MaxSessionEvents /\ \E c \in Conns, r \in Rooms : JoinRoom(c, r)
    \/ Events < MaxSessionEvents
          /\ \E c \in Conns, p \in JoinPayloads : JoinRoomObject(c, p)
    \/ \E c \in Conns, res \in UNION {GetResults(r) : r \in Rooms} :
          LoadResume(c, res)
    \/ Events < MaxSessionEvents /\ \E c \in Conns, data \in DrawData : Draw(c, data)
    \/ Events < MaxSessionEvents
          /\ \E c \in Conns, type \in UnhandledTypes, r \in Rooms :
                Unhandled(c, type, r)
    \/ Events < MaxSessionEvents /\ AutoSave
    \/ \E f \in DOMAIN flushes, r \in Rooms, ok \in BOOLEAN : WriteSettle(f, r, ok)

SpecSession == Init /\ [][SessionNext]_vars

\* ------------------------------------------------------------ properties
IsSuffix(s, t) ==
    /\ Len(s) <= Len(t)
    /\ \A i \in 1..Len(s) : t[Len(t) - Len(s) + i] = s[i]

\* The segment carried by an inbound draw event, field by field
Segment(data) ==
    [x0 |-> data.x0, y0 |-> data.y0, x1 |-> data.x1, y1 |-> data.y1,
     color |-> data.color, size |-> data.size]

DrawnSegments(r) == [i \in 1..Len(drawn[r]) |-> Segment(drawn[r][i].data)]

InitBoards(ob) == SelectSeq(ob, LAMBDA e : e.type = "init-board")
Draws(ob) == SelectSeq(ob, LAMBDA e : e.type = "draw")

Last(s) == s[Len(s)]

\* C1: the N strokes drawn to a room are all in its in-memory strokes: the
\* room is resident and its strokes end with exactly those N strokes, in
\* order, so that a room that began empty has length exactly N, also when a
\* load of the room was in flight while they were drawn.
C1_DrawsAllKept ==
    \A r \in Rooms :
        drawn[r] # <<>> => Resident(r) /\ IsSuffix(DrawnSegments(r), boards[r])

\* C2: a join-room gets exactly one init-board, sent when the join
\* completes, and its payload is the room's strokes as they were at the
\* instant of the join-room event (for a room that had to be loaded: what
\* the store held for it at that instant, or nothing when the read failed);
\* no other step sends an init-board.
C2_InitBoardIsStrokesAtJoin ==
    [][\A c \in Conns :
        IF joined'[c] # joined[c]
        THEN LET r == Last(joined'[c]) IN
             IF Resident(r)
             THEN outbox'[c] = Append(outbox[c], InitBoardEvent(boards[r]))
             ELSE outbox'[c] = outbox[c]
        ELSE IF c \in DOMAIN loads /\ c \notin DOMAIN loads' /\ status[c] = "open"
        THEN \E p \in {loads[c].atJoin, <<>>} :
                outbox'[c] = Append(outbox[c], InitBoardEvent(p))
        ELSE InitBoards(outbox'[c]) = InitBoards(outbox[c])]_vars

\* C3: when a flush completes successfully, every room that is dirty and was
\* not in the dirty set when that flush started is still dirty afterwards.
C3_FlushRemovesOnlySnapshot ==
    [][\A f \in DOMAIN flushes :
        (flushes[f].status = "running" /\ flushes'[f].status = "ok")
        => (dirtyRooms \ DOMAIN flushes[f].sent) \subseteq dirtyRooms']_vars

\* C4: once the most recently started flush has completed successfully, a
\* load from the store hydrates, for every room of that flush, the strokes
\* the room had in memory when the flush began.
C4_FlushedStrokesAreStored ==
    \A f \in DOMAIN flushes :
        (f = Len(flushes) /\ flushes[f].status = "ok")
        => \A r \in DOMAIN flushes[f].sent :
              StoredStrokes(r) = flushes[f].sent[r].strokes

C7_ExitAfterFinalFlushSettled ==
    exited =>
        \A f \in DOMAIN flushes :
            (flushes[f].by = "gracefulShutdown" /\ flushes[f].status # "running")
            => flushes[f].pending = {}

\* C8: at most one shutdown sequence ever starts a flush.
C8_OneShutdownSequence ==
    Cardinality({f \in DOMAIN flushes : flushes[f].by = "gracefulShutdown"}) <= 1

Takes(type, c, r) ==
    /\ received'.n = received.n + 1
    /\ received'.type = type
    /\ received'.conn = c
    /\ received'.roomId = r

\* The latest event taken from outside was a clear-room for room r
LastWasClear(r) ==
    /\ received.type = "clear-room"
    /\ received.roomId = r
    /\ received.at + 1 = Events

BoardClearedEvent == [type |-> "board-cleared"]

\* C11: a clear-room event for room r leaves r's strokes empty, and a draw
\* for r that is the next event after a clear-room for r leaves r's strokes
\* with length exactly 1.
C11_ClearThenDrawLeavesOne ==
    [][\A r \in Rooms :
        /\ (\E c \in Conns : Takes("clear-room", c, r))
              => (r \in DOMAIN boards' => boards'[r] = <<>>)
        /\ (LastWasClear(r) /\ Len(drawn'[r]) = Len(drawn[r]) + 1)
              => Len(boards'[r]) = 1]_vars

\* C12: a clear-room event from socket c for room r appends one
\* board-cleared event to every open socket in room r, c included.
C12_ClearBroadcastToAll ==
    [][\A c \in Conns, r \in Rooms :
        Takes("clear-room", c, r)
        => \A d \in members[r] :
              outbox'[d] = Append(outbox[d], BoardClearedEvent)]_vars

\* C13: the step that takes a clear-room event for room r issues a store
\* write for r that carries empty strokes, without waiting for the save
\* timer.
C13_ClearWritesEagerly ==
    [][\A c \in Conns, r \in Rooms :
        Takes("clear-room", c, r)
        => /\ Len(flushes') = Len(flushes) + 1
           /\ r \in Last(flushes').pending
           /\ Last(flushes').sent[r].strokes = <<>>]_vars

\* The events a step appends to the outbox of socket d
NewEvents(d) == SubSeq(outbox'[d], Len(outbox[d]) + 1, Len(outbox'[d]))

\* C14: when socket c disconnects, c is in no room afterwards, and every
\* other socket of each room c was in is sent exactly two events by that
\* step: one update-user-list and one cursor-remove that names c.
C14_DisconnectAnnounced ==
    [][\A c \in Conns :
        (status[c] = "open" /\ status'[c] = "closed")
        => /\ \A r \in Rooms : c \notin members'[r]
           /\ \A r \in Rooms :
                c \in members[r]
                => \A d \in members[r] \ {c} :
                      /\ Len(outbox'[d]) = Len(outbox[d]) + 2
                      /\ {e.type : e \in {NewEvents(d)[i] : i \in 1..2}}
                            = {"update-user-list", "cursor-remove"}
                      /\ \E i \in 1..2 :
                            /\ NewEvents(d)[i].type = "cursor-remove"
                            /\ NewEvents(d)[i].connectionId = c]_vars

\* The step completes a join-room of socket c for room r: it is the
\* join-room event itself when r is resident, and the resumption of the
\* load otherwise
JoinCompletes(c, r) ==
    \/ joined'[c] = Append(joined[c], r) /\ Resident(r)
    \/ c \in DOMAIN loads /\ c \notin DOMAIN loads' /\ loads[c].room = r

\* C15: the step that completes a join of room r (and sends init-board)
\* sends an update-user-list as its last event to every socket then in
\* room r, the joiner included.
C15_JoinAnnouncesUserList ==
    [][\A c \in Conns, r \in Rooms :
        JoinCompletes(c, r)
        => \A d \in members'[r] :
              /\ Len(outbox'[d]) > Len(outbox[d])
              /\ Last(outbox'[d]).type = "update-user-list"]_vars

\* C16: a join-room event whose payload is {roomId: r, username: n} puts
\* the socket in room r and, when r is resident, sends it an init-board
\* with r's strokes; while the socket is open, a draw for r from another
\* socket is relayed to it.
C16_ObjectJoinBindsToRoom ==
    [][\A r \in Rooms :
        /\ \A c \in Conns :
              Takes("join-room", c, r)
              => /\ c \in members'[r]
                 /\ Resident(r)
                      => outbox'[c] = Append(outbox[c], InitBoardEvent(boards[r]))
        /\ ( /\ received.type = "join-room"
             /\ received.roomId = r
             /\ status[received.conn] = "open"
             /\ Len(drawn'[r]) = Len(drawn[r]) + 1
             /\ Last(drawn'[r]).conn # received.conn )
           => outbox'[received.conn]
                = Append(outbox[received.conn],
                         DrawEvent(Segment(Last(drawn'[r]).data)))]_vars

\* C19: a send-message event from socket c for room r appends exactly one
\* new-message event to every socket in room r, c included.
C19_ChatRelayedToAll ==
    [][\A c \in Conns, r \in Rooms :
        Takes("send-message", c, r)
        => \A d \in members[r] :
              /\ Len(outbox'[d]) = Len(outbox[d]) + 1
              /\ Last(outbox'[d]).type = "new-message"]_vars

\* C17: an event for a room that is not resident is never refused.  A draw
\* leaves the room resident with the stroke appended (alone, when the room
\* was not resident); a join-room for such a room puts the socket in the
\* room and starts its load, and the step that resumes the load leaves the
\* room resident (empty when the store holds nothing for it) and sends the
\* joiner its init-board; the only events ever sent are init-board and
\* draw, so none is an error event.
C17_UnknownRoomCreatedLazily ==
    [][/\ \A r \in Rooms :
            Len(drawn'[r]) = Len(drawn[r]) + 1
            => /\ r \in DOMAIN boards'
               /\ boards'[r] = IF Resident(r)
                                THEN Append(boards[r], Segment(Last(drawn'[r]).data))
                                ELSE <<Segment(Last(drawn'[r]).data)>>
               /\ r \in dirtyRooms'
       /\ \A c \in Conns, r \in Rooms :
            (joined'[c] = Append(joined[c], r) /\ ~Resident(r))
            => /\ c \in members'[r]
               /\ c \in DOMAIN loads'
               /\ loads'[c].room = r
       /\ \A c \in Conns :
            (c \in DOMAIN loads /\ c \notin DOMAIN loads')
            => LET r == loads[c].room IN
               /\ r \in DOMAIN boards'
               /\ r \notin DOMAIN store => boards'[r] = <<>>
               /\ status[c] = "open"
                    => outbox'[c] = Append(outbox[c], InitBoardEvent(boards'[r]))
       /\ \A d \in Conns :
            \A i \in 1..Len(NewEvents(d)) :
               NewEvents(d)[i].type \in {"init-board", "draw"}]_vars

C17_Witness ==
    \E r, r2 \in Rooms, c \in Conns :
        /\ r # r2
        /\ TotalJoins = 1
        /\ joined[c] = <<r2>>
        /\ c \notin DOMAIN loads
        /\ r2 \notin DOMAIN store
        /\ Resident(r2)
        /\ boards[r2] = <<>>
        /\ outbox[c] = <<InitBoardEvent(<<>>)>>
        /\ Len(drawn[r]) = 1
        /\ drawn[r2] = <<>>
        /\ boards[r] = <<Segment(drawn[r][1].data)>>

\* C18: a flush writes, for a dirty room whose strokes are empty, a document
\* with an empty strokes sequence; once that write succeeds the store holds
\* that document, and a load of the room from it finds an existing
\* document (not an absent one) and hydrates an empty strokes sequence.
C18_EmptyRoomRoundTrip ==
    [][/\ Len(flushes') = Len(flushes) + 1
            => \A r \in dirtyRooms :
                  BoardOrEmpty(r) = <<>>
                  => /\ r \in DOMAIN Last(flushes').sent
                     /\ "strokes" \in DOMAIN Last(flushes').sent[r]
                     /\ Last(flushes').sent[r].strokes = <<>>
       /\ \A f \in DOMAIN flushes, r \in Rooms :
            (WriteSettle(f, r, TRUE) /\ DocStrokes(flushes[f].sent[r]) = <<>>)
            => /\ r \in DOMAIN store'
               /\ store'[r] = flushes[f].sent[r]
               /\ [kind |-> "absent"] \notin GetResults(r)'
               /\ \A res \in GetResults(r)' :
                     res.kind = "doc" => LoadedStrokes(r, res) = <<>>]_vars

C18_Witness ==
    \E r \in Rooms, f \in DOMAIN flushes :
        /\ flushes[f].status = "ok"
        /\ r \in DOMAIN flushes[f].sent
        /\ Resident(r)
        /\ boards[r] = <<>>
        /\ r \in DOMAIN store
        /\ store[r] = flushes[f].sent[r]
        /\ "strokes" \in DOMAIN store[r]
        /\ store[r].strokes = <<>>

EphemeralTypes == {"cursor-move", "cursor-leave", "send-message"}
DocumentFields == {"strokes", "updatedAt"}

\* C20: a step that takes a cursor-move, cursor-leave or send-message event
\* leaves every room's strokes, the dirty set, the store and the writes in
\* flight as they were; every document a flush sends, and every document a
\* step puts in the store, has exactly the fields strokes and updatedAt.
C20_EphemeralEventsNotDurable ==
    [][/\ \A c \in Conns, r \in Rooms, type \in EphemeralTypes :
            Takes(type, c, r)
            => /\ boards' = boards
               /\ dirtyRooms' = dirtyRooms
               /\ store' = store
               /\ flushes' = flushes
       /\ Len(flushes') = Len(flushes) + 1
            => \A r \in DOMAIN Last(flushes').sent :
                  DOMAIN Last(flushes').sent[r] = DocumentFields
       /\ \A r \in DOMAIN store' :
            (r \notin DOMAIN store \/ store'[r] # store[r])
            => DOMAIN store'[r] = DocumentFields]_vars

C20_Witness ==
    \E r \in Rooms, f \in DOMAIN flushes :
        /\ received.type \in EphemeralTypes
        /\ received.roomId = r
        /\ flushes[f].status = "ok"
        /\ r \in DOMAIN flushes[f].sent
        /\ r \in DOMAIN store
        /\ store[r] = flushes[f].sent[r]
        /\ store[r].strokes = boards[r]
        /\ boards[r] # <<>>

\* C21 as stated: a commit-stroke event for room r appends one element to
\* r's strokes, marks r dirty and sends one commit-stroke event to every
\* other socket in room r, all in the step that takes the event.
C21_CommitStrokeStoredAndRelayed ==
    [][\A c \in Conns, r \in Rooms :
        Takes("commit-stroke", c, r)
        => /\ r \in DOMAIN boards'
           /\ Len(boards'[r]) = Len(BoardOrEmpty(r)) + 1
           /\ r \in dirtyRooms'
           /\ \A d \in members[r] \ {c} :
                 /\ Len(outbox'[d]) = Len(outbox[d]) + 1
                 /\ Last(outbox'[d]).type = "commit-stroke"]_vars

\* C21 as amended: a commit-stroke event has no effect on the server: the
\* step that takes it leaves every room's strokes, the dirty set, the store
\* and the writes in flight as they were and sends no event to any socket.
C21_CommitStrokeIgnored ==
    [][\A c \in Conns, r \in Rooms :
        Takes("commit-stroke", c, r)
        => /\ boards' = boards
           /\ dirtyRooms' = dirtyRooms
           /\ store' = store
           /\ flushes' = flushes
           /\ outbox' = outbox]_vars

C21_Witness ==
    \E c, d \in Conns, r \in Rooms :
        /\ c # d
        /\ received.type = "commit-stroke"
        /\ received.conn = c
        /\ received.roomId = r
        /\ {c, d} \subseteq members[r]
        /\ status[d] = "open"
        /\ Draws(outbox[d]) = <<>>

\* C22: the disconnect of a socket that never joined a room leaves every
\* room's strokes, the dirty set, the store, the writes in flight and the
\* rooms' members as they were and sends no event; a closed socket stays
\* closed, is in no room, and no further disconnect of it is processed.
C22_DisconnectOfUnboundIsNoOp ==
    [][\A c \in Conns :
        /\ (status[c] = "open" /\ status'[c] = "closed" /\ joined[c] = <<>>)
             => /\ boards' = boards
                /\ dirtyRooms' = dirtyRooms
                /\ store' = store
                /\ flushes' = flushes
                /\ members' = members
                /\ outbox' = outbox
        /\ status[c] = "closed"
             => /\ status'[c] = "closed"
                /\ \A r \in Rooms : c \notin members'[r]
                /\ ~ENABLED Disconnect(c)]_vars

C22_Witness ==
    \E c, d \in Conns, r \in Rooms :
        /\ c # d
        /\ status[c] = "closed"
        /\ joined[c] = <<>>
        /\ status[d] = "open"
        /\ d \in members[r]
        /\ Resident(r)
        /\ boards[r] # <<>>
        /\ r \in dirtyRooms
        /\ outbox[d] = <<InitBoardEvent(boards[r])>>

\* C29: when two loads of the same room were in flight together, the step
\* that resumes the one that finishes last leaves in the room's strokes
\* everything they held before it, which is what they would hold had that
\* load not run.
C29_DuplicateLoadHarmless ==
    [][\A c \in Conns :
        (c \in DOMAIN loads /\ c \notin DOMAIN loads' /\ loads[c].afterFirst)
        => LET r == loads[c].room IN
           /\ Len(boards'[r]) >= Len(boards[r])
           /\ \A i \in 1..Len(boards[r]) :
                 \E j \in 1..Len(boards'[r]) : boards'[r][j] = boards[r][i]]_vars

\* C23: every room in the dirty set is resident.
C23_DirtyRoomsAreResident == dirtyRooms \subseteq DOMAIN boards

C23_Witness ==
    /\ dirtyRooms = Rooms
    /\ \E r \in Rooms : boards[r] = <<>> /\ drawn[r] = <<>>
    /\ \E r \in Rooms : boards[r] # <<>> /\ drawn[r] # <<>>

StrokeFields == {"x0", "y0", "x1", "y1", "color", "size"}

C25_StrokesInArrivalOrder ==
    [][/\ \A r \in Rooms :
            \A i, j \in 1..Len(drawn'[r]) :
               i < j
               => /\ r \in DOMAIN boards'
                  /\ \E p, q \in 1..Len(boards'[r]) :
                        /\ p < q
                        /\ boards'[r][p] = Segment(drawn'[r][i].data)
                        /\ boards'[r][q] = Segment(drawn'[r][j].data)
       /\ \A r \in Rooms :
            Len(drawn'[r]) = Len(drawn[r]) + 1
            => \A d \in members[r] \ {Last(drawn'[r]).conn} :
                  outbox'[d] = Append(outbox[d],
                                      DrawEvent(Segment(Last(drawn'[r]).data)))]_vars

\* C26: the step that processes a draw for room r, and the step that
\* resumes a load of r whose read did not fail, leave r in the dirty set;
\* a room leaves the dirty set only in a step in which a flush completes
\* successfully.
C26_DirtyUntilSuccessfulFlush ==
    [][/\ \A r \in Rooms :
            Len(drawn'[r]) = Len(drawn[r]) + 1 => r \in dirtyRooms'
       /\ \A c \in DOMAIN loads :
            (\E res \in GetResults(loads[c].room) :
                res.kind # "error" /\ LoadResume(c, res))
            => loads[c].room \in dirtyRooms'
       /\ \A r \in dirtyRooms :
            r \notin dirtyRooms'
            => \E f \in DOMAIN flushes :
                  /\ flushes[f].status = "running"
                  /\ flushes'[f].status = "ok"]_vars

C26_Witness ==
    \E r \in Rooms, c \in Conns, f \in DOMAIN flushes :
        /\ joined[c] = <<r>>
        /\ c \notin DOMAIN loads
        /\ TotalDraws = 0
        /\ flushes[f].status = "failed"
        /\ r \in DOMAIN flushes[f].sent
        /\ r \in dirtyRooms
        /\ r \notin DOMAIN store

\* C27: a flush that starts issues one write for each room in the dirty set
\* and for no other room, each carrying the strokes the room has at that
\* moment; no flush starts and no write is issued while the dirty set is
\* empty; the store changes only by a write of a flush settling, to the
\* document that write carries.
C27_OneWritePerDirtyRoom ==
    [][/\ Len(flushes') = Len(flushes) + 1
            => /\ dirtyRooms # {}
               /\ DOMAIN Last(flushes').sent = dirtyRooms
               /\ Last(flushes').pending = dirtyRooms
               /\ \A r \in dirtyRooms :
                     /\ Last(flushes').sent[r].strokes = BoardOrEmpty(r)
                     /\ Last(flushes').sent[r].updatedAt = Now
       /\ \A f \in DOMAIN flushes :
            /\ flushes'[f].sent = flushes[f].sent
            /\ flushes'[f].pending \subseteq flushes[f].pending
       /\ \A r \in Rooms :
            (r \in DOMAIN store' /\ (r \notin DOMAIN store \/ store'[r] # store[r]))
            => \E f \in DOMAIN flushes :
                  /\ r \in flushes[f].pending
                  /\ r \notin flushes'[f].pending
                  /\ store'[r] = flushes[f].sent[r]]_vars

C27_Witness ==
    \E r, r2 \in Rooms :
        /\ r # r2
        /\ Resident(r)
        /\ Resident(r2)
        /\ Len(flushes) = 1
        /\ DOMAIN flushes[1].sent = {r}
        /\ flushes[1].sent[r].strokes # <<>>
        /\ flushes[1].status = "ok"
        /\ store[r] = flushes[1].sent[r]
        /\ r2 \notin DOMAIN store
        /\ r2 \notin dirtyRooms
        /\ drawn[r2] = <<>>

\* C28: while a load is in flight, a draw event from any open socket, for
\* the room being loaded or for any other room, can be processed at once;
\* the step that processes it appends the stroke, relays it to the other
\* sockets in the room and leaves the loads in flight as they were.
C28_DrawsProceedDuringLoad ==
    [][/\ (loads # <<>> /\ ~exited)
            => \A c \in Conns, data \in DrawData :
                  status[c] = "open" => ENABLED Draw(c, data)
       /\ \A r \in Rooms :
            (loads # <<>> /\ Len(drawn'[r]) = Len(drawn[r]) + 1)
            => LET e == Last(drawn'[r]) IN
               /\ r \in DOMAIN boards'
               /\ boards'[r] = Append(BoardOrEmpty(r), Segment(e.data))
               /\ \A d \in members[r] \ {e.conn} :
                     outbox'[d] = Append(outbox[d], DrawEvent(Segment(e.data)))
               /\ loads' = loads]_vars

C28_Witness ==
    \E c, d \in Conns, r \in Rooms :
        /\ c # d
        /\ c \in DOMAIN loads
        /\ loads[c].room = r
        /\ Len(drawn[r]) = 1
        /\ drawn[r][1].conn = d
        /\ boards[r] = <<Segment(drawn[r][1].data)>>
        /\ outbox[c] = <<DrawEvent(Segment(drawn[r][1].data))>>

\* The rooms other than r are as they were: resident or not, their strokes,
\* and no room other than r is new in the dirty set
OtherRoomsUnchanged(r) ==
    /\ \A r2 \in Rooms \ {r} :
          /\ r2 \in DOMAIN boards' <=> r2 \in DOMAIN boards
          /\ r2 \in DOMAIN boards => boards'[r2] = boards[r2]
    /\ dirtyRooms' \ dirtyRooms \subseteq {r}

\* C30: a draw for room r, a join-room for r and the resumption of the load
\* of a join of r leave every other room's strokes as they were and add no
\* other room to the dirty set; the draw sends nothing to a socket that is
\* not in room r, and the join sends nothing to any socket but the joiner
\* and changes the members of no other room.
C30_RoomsIsolated ==
    [][/\ \A r \in Rooms :
            Len(drawn'[r]) = Len(drawn[r]) + 1
            => /\ OtherRoomsUnchanged(r)
               /\ \A d \in Conns \ members[r] : outbox'[d] = outbox[d]
       /\ \A c \in Conns, r \in Rooms :
            joined'[c] = Append(joined[c], r)
            => /\ OtherRoomsUnchanged(r)
               /\ \A d \in Conns \ {c} : outbox'[d] = outbox[d]
               /\ \A r2 \in Rooms \ {r} : members'[r2] = members[r2]
       /\ \A c \in Conns :
            (c \in DOMAIN loads /\ c \notin DOMAIN loads')
            => /\ OtherRoomsUnchanged(loads[c].room)
               /\ \A d \in Conns \ {c} : outbox'[d] = outbox[d]]_vars

C30_Witness ==
    \E c, d \in Conns, r, r2 \in Rooms :
        /\ c # d
        /\ r # r2
        /\ joined[d] = <<r2>>
        /\ joined[c] = <<>>
        /\ members[r2] = {d}
        /\ status[d] = "open"
        /\ Len(drawn[r]) = 1
        /\ drawn[r][1].conn = c
        /\ drawn[r2] = <<>>
        /\ boards[r] = <<Segment(drawn[r][1].data)>>
        /\ Draws(outbox[d]) = <<>>

\* The stroke is one of the strokes of the sequence
Contains(strokes, stroke) == \E j \in 1..Len(strokes) : strokes[j] = stroke

\* Nothing is left for the save timer to do: no room is dirty and no write
\* is in flight
Quiescent ==
    /\ ~exited
    /\ dirtyRooms = {}
    /\ \A f \in DOMAIN flushes : flushes[f].pending = {}

\* C31: every stroke drawn to a room gets into a document written for that
\* room.  Once no room is dirty and no write is in flight, the save timer
\* writes nothing more unless another event arrives, so by then every
\* stroke drawn so far is in a document that some flush has sent for its
\* room.
C31_StrokesEventuallyWritten ==
    Quiescent
    => \A r \in Rooms :
          \A i \in 1..Len(drawn[r]) :
             \E f \in DOMAIN flushes :
                /\ r \in DOMAIN flushes[f].sent
                /\ Contains(flushes[f].sent[r].strokes, Segment(drawn[r][i].data))

IsPrefix(s, t) ==
    /\ Len(s) <= Len(t)
    /\ \A i \in 1..Len(s) : t[i] = s[i]

\* C32: every write of a flush that succeeds carries, for its room, a
\* strokes sequence that begins with the strokes the store held for the
\* room until then.
C32_WritesExtendStoredStrokes ==
    [][\A f \in DOMAIN flushes, r \in Rooms :
        WriteSettle(f, r, TRUE)
        => IsPrefix(StoredStrokes(r), flushes[f].sent[r].strokes)]_vars

\* C34: a socket whose first join-room is still waiting for its load has
\* been sent no draw event.
C34_NoDrawBeforeInitBoard ==
    \A c \in DOMAIN loads :
        Len(joined[c]) = 1 => Draws(outbox[c]) = <<>>

\* C35: when the process has exited and the flush started last is the
\* final flush of a shutdown that completed without a failed write, the
\* store holds, for every room that flush wrote, the strokes the room had in
\* memory when that flush started.
C35_ShutdownLeavesStoreCurrent ==
    ( /\ exited
      /\ flushes # <<>>
      /\ Last(flushes).by = "gracefulShutdown"
      /\ Last(flushes).status = "ok" )
    => \A r \in DOMAIN Last(flushes).sent :
          StoredStrokes(r) = Last(flushes).sent[r].strokes

\* C37: after the step that resumes a load whose store read failed, the
\* room is not in the dirty set, so that no later flush writes the empty
\* placeholder unless a draw for the room marks it first.
C37_FailedLoadNotWritten ==
    [][\A c \in Conns :
        LoadResume(c, [kind |-> "error"]) => loads[c].room \notin dirtyRooms']_vars

DrawsNothing(c) ==
    \A r \in Rooms : \A i \in 1..Len(drawn[r]) : drawn[r][i].conn # c

ClientView(ob) ==
    LET k == CHOOSE i \in 1..Len(ob) : ob[i].type = "init-board"
        after == Draws(SubSeq(ob, k + 1, Len(ob)))
    IN  ob[k].strokes \o [i \in 1..Len(after) |-> after[i].stroke]

\* C33: a connection that has joined one room, has been sent its
\* init-board and has submitted no draw of its own holds the server's view:
\* the strokes of the init-board followed by the strokes of the draw events
\* sent to it afterwards are, in order, the room's in-memory strokes.
C33_ViewerConverges ==
    \A c \in Conns, r \in Rooms :
        ( /\ joined[c] = <<r>>
          /\ status[c] = "open"
          /\ c \notin DOMAIN loads
          /\ DrawsNothing(c) )
        => /\ Len(InitBoards(outbox[c])) = 1
           /\ ClientView(outbox[c]) = BoardOrEmpty(r)

\* C36: a join-room for a room that is already resident starts no store
\* read and leaves the strokes of every room, the dirty set, the store and
\* the flushes unchanged; it adds the socket to the room and sends the
\* joiner one init-board carrying the room's strokes.
C36_ResidentJoinReadsNothing ==
    [][\A c \in Conns, r \in Rooms :
        (joined'[c] = Append(joined[c], r) /\ r \in DOMAIN boards)
        => /\ loads' = loads
           /\ boards' = boards
           /\ dirtyRooms' = dirtyRooms
           /\ store' = store
           /\ flushes' = flushes
           /\ members' = [members EXCEPT ![r] = @ \cup {c}]
           /\ outbox' = [outbox EXCEPT
                            ![c] = Append(@, InitBoardEvent(boards[r]))]]_vars

C36_Witness ==
    \E c, d \in Conns, r \in Rooms :
        /\ c # d
        /\ TotalJoins = 1
        /\ joined[c] = <<r>>
        /\ Len(drawn[r]) = 1
        /\ drawn[r][1].conn = d
        /\ loads = <<>>
        /\ boards[r] = <<Segment(drawn[r][1].data)>>
        /\ outbox[c] = <<InitBoardEvent(boards[r])>>
        /\ r \notin DOMAIN store
        /\ flushes = <<>>
====
